---------------------------- MODULE Spec2Model ----------------------------
(***************************************************************************)
(* A model of the AudioBooker class of src/main.py: the extraction of the  *)
(* media URLs from a HAR capture (_identify_download_urls), the download   *)
(* loop (_download_audiobook_files), and the chapter segmentation of the   *)
(* downloaded files (execute, _identify_chapters, _generate_chapter_file). *)
(*                                                                         *)
(* Two specifications share the module.  Spec is one run of execute() from *)
(* the list of located media links onwards; SpecHar is one call of         *)
(* _identify_download_urls on a capture document.  The interface between   *)
(* the two is the list the extractor returns: a duplicate-free sequence of *)
(* URLs that match the media domain.                                       *)
(***************************************************************************)
EXTENDS Integers, Sequences, FiniteSets, TLC

VARIABLES
    args,                      \* self._args: the parsed options used by the segmentation
    pc,                        \* position of the run inside execute()
    links,                     \* located_media_links still to be visited by the download loop
    disk,                      \* names of the raw download files present in the download directory
    downloaded_files,          \* downloaded_files of _download_audiobook_files / execute
    file_i,                    \* 1-based position of execute()'s loop in downloaded_files
    silence_timestamps,        \* the list handed to the current _identify_chapters call
    ts_i,                      \* 1-based position of _identify_chapters' loop in silence_timestamps
    is_last_file,              \* the is_last_file argument of the current _identify_chapters call
    next_chapter_start_time,   \* local of _identify_chapters
    chapter,                   \* self._chapter
    track,                     \* self._track
    introduction_processed,    \* self._introduction_processed
    prologue_processed,        \* self._prologue_processed
    segments,                  \* (start_time, end_time) of the _generate_chapter_file calls of the current file
    generated,                 \* every _generate_chapter_file call of the run: file, label, track
    analysed,                  \* positions of the files _detect_silences was invoked on
    identified,                \* the is_last_file argument of every _identify_chapters call so far
    exit_status,               \* process exit status, -1 while running
    transfer,                  \* outcome of the download loop's current iteration
    returncode,                \* result.returncode of the latest _execute_command, -1 before the first
    timestamps,                \* the re.findall result of _detect_silences
    maximum_silence,           \* self._args.maximum_silence
    returned_timestamps,       \* the list _detect_silences returns (line 161)
    detect_pc,                 \* position of a _detect_silences call
    argv,                      \* the options given on the command line
    namespace,                 \* the attributes of the argparse result
    metadata,                  \* self._metadata: the run-wide metadata fields
    startup_pc,                \* position of AudioBooker() (line 303) inside __init__
    silence_duration_threshold, \* self._args.silence_duration_threshold
    commands,                  \* the commands _generate_chapter_file handed to _execute_command
    chapter_files,             \* labels whose chapter file is in the download directory
    entries,                   \* loaded_har_file["log"]["entries"]
    located_media_links,       \* the dict of _identify_download_urls, in insertion order
    ordered_media_links,       \* its return value
    har_pc                     \* "loaded" before and "returned" after _identify_download_urls

run_vars == <<args, pc, links, disk, downloaded_files, file_i, silence_timestamps, ts_i,
              is_last_file, next_chapter_start_time, chapter, track,
              introduction_processed, prologue_processed, segments, generated,
              analysed, identified, exit_status, transfer, returncode>>

har_vars == <<entries, located_media_links, ordered_media_links, har_pc>>

detect_vars == <<timestamps, maximum_silence, returned_timestamps, detect_pc>>

startup_vars == <<argv, namespace, metadata, startup_pc>>

extract_vars == <<silence_duration_threshold, commands, chapter_files>>

vars == <<run_vars, har_vars, detect_vars, startup_vars, extract_vars>>

----------------------------------------------------------------------------
(* Bounds of the model. *)

\* Longest list of located media links of a run.
MaxFiles == 2

\* Longest list of silence intervals _detect_silences returns for one file.
MaxSilences == 2

\* Longest capture document.
MaxEntries == 3

\* Largest startedDateTime instant of a capture entry.
MaxClock == 2

\* Largest time, in seconds, the analysis tool prints in a filter check.
MaxSeconds == 4

\* Largest time, in tenths of a second, the analysis tool prints in an
\* extraction check, and largest --silence_duration_threshold, in tenths.
MaxTenths == 6

MaxThreshold == 3

----------------------------------------------------------------------------
(* Values. *)

\* A Python int and a Python str argument of _generate_chapter_file are kept
\* apart: next_chapter_start_time starts as the int 0 and the trailing
\* end_time is the int 0, every other time is a string captured by the regex
\* of _detect_silences.
IntVal(n) == [type |-> "int", val |-> n]

StrVal(t) == [type |-> "str", val |-> t]

\* f"Chapter {self._chapter}" and f"Part {self._chapter}".
Numbered(word, n) == <<word, n>>

\* "Introduction", "Prologue", "Epilogue", "Conclusion".
Plain(word) == <<word>>

MediaDomain == "odrmediaclips.cachefly.net"

Hosts == {MediaDomain, "example.org"}

Dirs == {"a", "b"}

\* Last path segments that \w+ matches.
WordNames == {"Part1", "Part2"}

\* Last path segments of a URL; "Part3.mp3?x" is not matched by \/(\w+)$.
BaseNames == WordNames \cup {"Part3.mp3?x"}

Urls == [host : Hosts, dir : Dirs, base : BaseNames]

\* "odrmediaclips.cachefly.net" in url
MatchesDomain(url) == url.host = MediaDomain

MediaUrls == {u \in Urls : MatchesDomain(u)}

\* re.search(r"\/(\w+)$", media_link)
ReMatch(media_link) == media_link.base \in WordNames

\* f"{self._download_directory}/{self._args.name}_{filename}.mp3": the
\* directory and the book name are the same for every file of a run.
DownloadFile(media_link) == media_link.base

Args == [has_introduction : BOOLEAN, has_prologue : BOOLEAN, has_epilogue : BOOLEAN,
         has_conclusion : BOOLEAN, no_chapters : BOOLEAN]

\* Times of a silence interval as printed by the analysis tool.
Times == 0 .. MaxSilences

\* Sequences over S of length at most n.
SeqUpTo(S, n) == UNION {[1 .. k -> S] : k \in 0 .. n}

\* The lists _detect_silences returns: intervals in file-time order, each
\* ending after it starts and starting no earlier than the previous one ends.
InFileOrder(l) ==
    /\ \A i \in 1 .. Len(l) : l[i][1] < l[i][2]
    /\ \A i \in 1 .. Len(l) - 1 : l[i][2] <= l[i + 1][1]

SilenceLists == {l \in SeqUpTo(Times \X Times, MaxSilences) : InFileOrder(l)}

\* Duplicate-free sequences over S of length at most n.
Distinct(s) == \A i, j \in 1 .. Len(s) : i # j => s[i] # s[j]

LinkLists == {s \in SeqUpTo(MediaUrls, MaxFiles) : Distinct(s)}

----------------------------------------------------------------------------
(* The capture variables are idle during a run of execute(). *)

HarIdle ==
    /\ entries = <<>>
    /\ located_media_links = <<>>
    /\ ordered_media_links = <<>>
    /\ har_pc = "idle"

(* The variables of _detect_silences' filter, of the start-up and of the
   extraction commands are idle where they are not observed. *)
DetectIdle ==
    /\ timestamps = <<>>
    /\ maximum_silence = 0
    /\ returned_timestamps = <<>>
    /\ detect_pc = "idle"

StartupIdle ==
    /\ argv = {}
    /\ namespace = <<>>
    /\ metadata = {}
    /\ startup_pc = "idle"

ExtractIdle ==
    /\ silence_duration_threshold = 0
    /\ commands = <<>>
    /\ chapter_files = {}

(* State after __init__ (lines 42-51), with the extractor's result in hand. *)
Init ==
    /\ args \in Args
    /\ pc = "download"
    /\ links \in LinkLists
    /\ disk \in SUBSET WordNames
    /\ downloaded_files = <<>>
    /\ file_i = 0
    /\ silence_timestamps = <<>>
    /\ ts_i = 0
    /\ is_last_file = FALSE
    /\ next_chapter_start_time = IntVal(0)
    /\ chapter = 0
    /\ track = 0
    /\ introduction_processed = FALSE
    /\ prologue_processed = FALSE
    /\ segments = <<>>
    /\ generated = <<>>
    /\ analysed = <<>>
    /\ identified = <<>>
    /\ exit_status = -1
    /\ transfer = "none"
    /\ returncode = -1
    /\ HarIdle
    /\ DetectIdle
    /\ StartupIdle
    /\ ExtractIdle

----------------------------------------------------------------------------
(* _download_audiobook_files, one action per outcome of one loop iteration. *)

\* Lines 199-202: the file name cannot be parsed from the URL.
DownloadUnparsed ==
    /\ pc = "download"
    /\ links # <<>>
    /\ ~ReMatch(Head(links))
    /\ links' = Tail(links)
    /\ transfer' = "unparsed"
    /\ UNCHANGED <<args, pc, disk, downloaded_files, file_i, silence_timestamps, ts_i,
                   is_last_file, next_chapter_start_time, chapter, track,
                   introduction_processed, prologue_processed, segments, generated,
                   analysed, identified, exit_status, returncode, har_vars, detect_vars, startup_vars, extract_vars>>

\* Lines 206-209: the file is already in the download directory.
DownloadExists ==
    /\ pc = "download"
    /\ links # <<>>
    /\ ReMatch(Head(links))
    /\ DownloadFile(Head(links)) \in disk
    /\ downloaded_files' = Append(downloaded_files, DownloadFile(Head(links)))
    /\ links' = Tail(links)
    /\ transfer' = "exists"
    /\ UNCHANGED <<args, pc, disk, file_i, silence_timestamps, ts_i,
                   is_last_file, next_chapter_start_time, chapter, track,
                   introduction_processed, prologue_processed, segments, generated,
                   analysed, identified, exit_status, returncode, har_vars, detect_vars, startup_vars, extract_vars>>

\* Lines 211-213: urlretrieve succeeds.
DownloadRetrieved ==
    /\ pc = "download"
    /\ links # <<>>
    /\ ReMatch(Head(links))
    /\ DownloadFile(Head(links)) \notin disk
    /\ disk' = disk \cup {DownloadFile(Head(links))}
    /\ downloaded_files' = Append(downloaded_files, DownloadFile(Head(links)))
    /\ links' = Tail(links)
    /\ transfer' = "retrieved"
    /\ UNCHANGED <<args, pc, file_i, silence_timestamps, ts_i,
                   is_last_file, next_chapter_start_time, chapter, track,
                   introduction_processed, prologue_processed, segments, generated,
                   analysed, identified, exit_status, returncode, har_vars, detect_vars, startup_vars, extract_vars>>

\* DownloadExpired with the append of line 213 done before the transfer.
DownloadExpiredAppends ==
    /\ pc = "download"
    /\ links # <<>>
    /\ ReMatch(Head(links))
    /\ DownloadFile(Head(links)) \notin disk
    /\ downloaded_files' = Append(downloaded_files, DownloadFile(Head(links)))
    /\ links' = Tail(links)
    /\ transfer' = "expired"
    /\ UNCHANGED <<args, pc, disk, file_i, silence_timestamps, ts_i,
                   is_last_file, next_chapter_start_time, chapter, track,
                   introduction_processed, prologue_processed, segments, generated,
                   analysed, identified, exit_status, returncode, har_vars, detect_vars,
                   startup_vars, extract_vars>>

\* Lines 214-217: urlretrieve raises HTTPError before anything is written.
DownloadExpired ==
    /\ pc = "download"
    /\ links # <<>>
    /\ ReMatch(Head(links))
    /\ DownloadFile(Head(links)) \notin disk
    /\ links' = Tail(links)
    /\ transfer' = "expired"
    /\ UNCHANGED <<args, pc, disk, downloaded_files, file_i, silence_timestamps, ts_i,
                   is_last_file, next_chapter_start_time, chapter, track,
                   introduction_processed, prologue_processed, segments, generated,
                   analysed, identified, exit_status, returncode, har_vars, detect_vars, startup_vars, extract_vars>>

\* Lines 218-219: urlretrieve raises another exception; a transfer that broke
\* off may leave a partial file behind.
DownloadError ==
    /\ pc = "download"
    /\ links # <<>>
    /\ ReMatch(Head(links))
    /\ DownloadFile(Head(links)) \notin disk
    /\ \E partial \in BOOLEAN :
          disk' = IF partial THEN disk \cup {DownloadFile(Head(links))} ELSE disk
    /\ links' = Tail(links)
    /\ transfer' = "error"
    /\ UNCHANGED <<args, pc, downloaded_files, file_i, silence_timestamps, ts_i,
                   is_last_file, next_chapter_start_time, chapter, track,
                   introduction_processed, prologue_processed, segments, generated,
                   analysed, identified, exit_status, returncode, har_vars, detect_vars, startup_vars, extract_vars>>

\* DownloadReturn with the return statement inside the loop body.
DownloadReturnEarly ==
    /\ pc = "download"
    /\ pc' = "file"
    /\ file_i' = 1
    /\ transfer' = "none"
    /\ UNCHANGED <<args, links, disk, downloaded_files, silence_timestamps, ts_i,
                   is_last_file, next_chapter_start_time, chapter, track,
                   introduction_processed, prologue_processed, segments, generated,
                   analysed, identified, exit_status, returncode, har_vars, detect_vars, startup_vars, extract_vars>>

\* Line 220 and line 291: the list is returned and execute() starts its loop.
DownloadReturn ==
    /\ pc = "download"
    /\ links = <<>>
    /\ pc' = "file"
    /\ file_i' = 1
    /\ transfer' = "none"
    /\ UNCHANGED <<args, links, disk, downloaded_files, silence_timestamps, ts_i,
                   is_last_file, next_chapter_start_time, chapter, track,
                   introduction_processed, prologue_processed, segments, generated,
                   analysed, identified, exit_status, returncode, har_vars, detect_vars, startup_vars, extract_vars>>

----------------------------------------------------------------------------
(* execute() and _identify_chapters. *)

\* IsLastFile without the test of --has_epilogue.
IsLastFileAnyRun(a, files, i) == files[i] = files[Len(files)]

\* Line 299: the value comparison of the file name with the last list element.
IsLastFile(a, files, i) == a.has_epilogue /\ files[i] = files[Len(files)]

\* IsLastTimestamp comparing with the first element of the list.
IsFirstTimestamp(tss, i) == tss[i] = tss[1]

\* Line 251, first conjunct: the value comparison of the interval with the
\* last element of the list.
IsLastTimestamp(tss, i) == tss[i] = tss[Len(tss)]

\* IntervalChapter without line 246: the introduction flag is never set.
IntervalChapterFlagUnset(a, intro, pro, ch, last_ts, last_file) ==
    IF a.has_introduction /\ ~intro
    THEN [label |-> Plain("Introduction"), intro |-> intro, pro |-> pro, ch |-> ch]
    ELSE IF a.has_prologue /\ ~pro
    THEN [label |-> Plain("Prologue"), intro |-> intro, pro |-> TRUE, ch |-> ch]
    ELSE IF last_ts /\ a.has_conclusion /\ last_file
    THEN [label |-> Plain("Epilogue"), intro |-> intro, pro |-> pro, ch |-> ch]
    ELSE [label |-> Numbered("Chapter", ch + 1), intro |-> intro, pro |-> pro,
          ch |-> ch + 1]

\* Lines 244-255: the label of one silence interval and the state it leaves.
IntervalChapter(a, intro, pro, ch, last_ts, last_file) ==
    IF a.has_introduction /\ ~intro
    THEN [label |-> Plain("Introduction"), intro |-> TRUE, pro |-> pro, ch |-> ch]
    ELSE IF a.has_prologue /\ ~pro
    THEN [label |-> Plain("Prologue"), intro |-> intro, pro |-> TRUE, ch |-> ch]
    ELSE IF last_ts /\ a.has_conclusion /\ last_file
    THEN [label |-> Plain("Epilogue"), intro |-> intro, pro |-> pro, ch |-> ch]
    ELSE [label |-> Numbered("Chapter", ch + 1), intro |-> intro, pro |-> pro,
          ch |-> ch + 1]

\* TrailingChapter with line 272 moved before line 266: the counter is
\* incremented for the last file too.
TrailingChapterAlwaysCounts(a, ch, last_file) ==
    IF last_file
    THEN IF a.has_conclusion
         THEN [label |-> Plain("Conclusion"), ch |-> ch + 1]
         ELSE [label |-> Plain("Epilogue"), ch |-> ch + 1]
    ELSE IF a.no_chapters
         THEN [label |-> Numbered("Part", ch + 1), ch |-> ch + 1]
         ELSE [label |-> Numbered("Chapter", ch + 1), ch |-> ch + 1]

\* TrailingChapter with the branches of line 267 exchanged.
TrailingChapterSwapped(a, ch, last_file) ==
    IF last_file
    THEN IF a.has_conclusion
         THEN [label |-> Plain("Epilogue"), ch |-> ch]
         ELSE [label |-> Plain("Conclusion"), ch |-> ch]
    ELSE IF a.no_chapters
         THEN [label |-> Numbered("Part", ch + 1), ch |-> ch + 1]
         ELSE [label |-> Numbered("Chapter", ch + 1), ch |-> ch + 1]

\* TrailingChapter without the test of line 273.
TrailingChapterNoPart(a, ch, last_file) ==
    IF last_file
    THEN IF a.has_conclusion
         THEN [label |-> Plain("Conclusion"), ch |-> ch]
         ELSE [label |-> Plain("Epilogue"), ch |-> ch]
    ELSE [label |-> Numbered("Chapter", ch + 1), ch |-> ch + 1]

\* Lines 266-276: the label of the audio after the last silence.
TrailingChapter(a, ch, last_file) ==
    IF last_file
    THEN IF a.has_conclusion
         THEN [label |-> Plain("Conclusion"), ch |-> ch]
         ELSE [label |-> Plain("Epilogue"), ch |-> ch]
    ELSE IF a.no_chapters
         THEN [label |-> Numbered("Part", ch + 1), ch |-> ch + 1]
         ELSE [label |-> Numbered("Chapter", ch + 1), ch |-> ch + 1]

\* NextTrack counting twice.
NextTrackTwice(t) == t + 2

\* Lines 256 and 277: self._track += 1.
NextTrack(t) == t + 1

\* NextStart taking the start of the silence.
NextStartAtSilenceStart(silence_timestamp) == StrVal(silence_timestamp[1])

\* Lines 243 and 264: next_chapter_start_time = silence_end.
NextStart(silence_timestamp) == StrVal(silence_timestamp[2])

\* Lines 257-263, 278-284 and 222-235: one _generate_chapter_file call, as
\* the command it hands to _execute_command.
Generate(label, t, start_time, end_time) ==
    /\ generated' = Append(generated, [file |-> file_i, filename |-> downloaded_files[file_i],
                                       chapter |-> label, track |-> t])
    /\ segments' = Append(segments, [start_time |-> start_time, end_time |-> end_time])

\* Exit setting the status without ending the run.
ExitLater ==
    /\ pc' = pc
    /\ exit_status' = 1

\* Lines 140-142: the command returned non-zero, sys.exit(1).
Exit ==
    /\ pc' = "exited"
    /\ exit_status' = 1

\* Lines 296-300 and 240: _identify_chapters is entered with the list tss.
EnterIdentifyChapters(tss) ==
    /\ silence_timestamps' = tss
    /\ is_last_file' = IsLastFile(args, downloaded_files, file_i)
    /\ identified' = Append(identified, IsLastFile(args, downloaded_files, file_i))
    /\ next_chapter_start_time' = IntVal(0)
    /\ ts_i' = 1
    /\ segments' = <<>>
    /\ pc' = "chapters"

\* Lines 292-293: chapter detection is disabled.
NoChapters ==
    /\ pc = "file"
    /\ file_i <= Len(downloaded_files)
    /\ args.no_chapters
    /\ EnterIdentifyChapters(<<>>)
    /\ UNCHANGED <<args, links, disk, downloaded_files, file_i, chapter, track,
                   introduction_processed, prologue_processed, generated, analysed,
                   exit_status, transfer, returncode, har_vars, detect_vars, startup_vars, extract_vars>>

\* Line 295: the analysis tool succeeds and its output is parsed into tss.
DetectSilences ==
    /\ pc = "file"
    /\ file_i <= Len(downloaded_files)
    /\ ~args.no_chapters
    /\ analysed' = Append(analysed, file_i)
    /\ returncode' = 0
    /\ \E tss \in SilenceLists : EnterIdentifyChapters(tss)
    /\ UNCHANGED <<args, links, disk, downloaded_files, file_i, chapter, track,
                   introduction_processed, prologue_processed, generated,
                   exit_status, transfer, har_vars, detect_vars, startup_vars, extract_vars>>

\* Line 295 with lines 140-142: the analysis tool fails.
DetectSilencesFails ==
    /\ pc = "file"
    /\ file_i <= Len(downloaded_files)
    /\ ~args.no_chapters
    /\ analysed' = Append(analysed, file_i)
    /\ returncode' = 1
    /\ Exit
    /\ UNCHANGED <<args, links, disk, downloaded_files, file_i, silence_timestamps, ts_i,
                   is_last_file, next_chapter_start_time, chapter, track,
                   introduction_processed, prologue_processed, segments, generated,
                   identified, transfer, har_vars, detect_vars, startup_vars, extract_vars>>

\* Lines 241-264: one iteration of the loop over the silence intervals; the
\* extraction tool succeeds (ok) or makes the process exit.
IntervalIteration ==
    /\ pc = "chapters"
    /\ ts_i <= Len(silence_timestamps)
    /\ LET c == IntervalChapter(args, introduction_processed, prologue_processed, chapter,
                                IsLastTimestamp(silence_timestamps, ts_i), is_last_file)
       IN  /\ introduction_processed' = c.intro
           /\ prologue_processed' = c.pro
           /\ chapter' = c.ch
           /\ track' = NextTrack(track)
           /\ Generate(c.label, NextTrack(track), next_chapter_start_time,
                       StrVal(silence_timestamps[ts_i][1]))
    /\ \E ok \in BOOLEAN :
          IF ok
          THEN /\ returncode' = 0
               /\ next_chapter_start_time' = NextStart(silence_timestamps[ts_i])
               /\ ts_i' = ts_i + 1
               /\ UNCHANGED <<pc, exit_status>>
          ELSE /\ returncode' = 1
               /\ Exit
               /\ UNCHANGED <<next_chapter_start_time, ts_i>>
    /\ UNCHANGED <<args, links, disk, downloaded_files, file_i, silence_timestamps,
                   is_last_file, analysed, identified, transfer, har_vars, detect_vars, startup_vars>>

\* IntervalIteration as execute() runs it, the commands not observed.
IntervalStep == IntervalIteration /\ UNCHANGED extract_vars

\* Lines 265-284 and the next iteration of line 291: the request for the
\* audio after the last silence.
TrailingRequest ==
    /\ pc = "chapters"
    /\ ts_i > Len(silence_timestamps)
    /\ LET c == TrailingChapter(args, chapter, is_last_file)
       IN  /\ chapter' = c.ch
           /\ track' = NextTrack(track)
           /\ Generate(c.label, NextTrack(track), next_chapter_start_time, IntVal(0))
    /\ \E ok \in BOOLEAN :
          IF ok
          THEN /\ returncode' = 0
               /\ pc' = "file"
               /\ file_i' = file_i + 1
               /\ UNCHANGED exit_status
          ELSE /\ returncode' = 1
               /\ Exit
               /\ UNCHANGED file_i
    /\ UNCHANGED <<args, links, disk, downloaded_files, silence_timestamps, ts_i,
                   is_last_file, next_chapter_start_time, introduction_processed,
                   prologue_processed, analysed, identified, transfer, har_vars, detect_vars, startup_vars>>

\* TrailingRequest as execute() runs it, the commands not observed.
TrailingStep == TrailingRequest /\ UNCHANGED extract_vars

\* Lines 291 and 304: the loop over the downloaded files is exhausted and the
\* script ends.
Finish ==
    /\ pc = "file"
    /\ file_i > Len(downloaded_files)
    /\ pc' = "done"
    /\ exit_status' = 0
    /\ UNCHANGED <<args, links, disk, downloaded_files, file_i, silence_timestamps, ts_i,
                   is_last_file, next_chapter_start_time, chapter, track,
                   introduction_processed, prologue_processed, segments, generated,
                   analysed, identified, transfer, returncode, har_vars, detect_vars, startup_vars, extract_vars>>

Next ==
    \/ DownloadUnparsed
    \/ DownloadExists
    \/ DownloadRetrieved
    \/ DownloadExpired
    \/ DownloadError
    \/ DownloadReturn
    \/ NoChapters
    \/ DetectSilences
    \/ DetectSilencesFails
    \/ IntervalStep
    \/ TrailingStep
    \/ Finish

Spec == Init /\ [][Next]_vars

----------------------------------------------------------------------------
(* _identify_download_urls, a function of the capture document. *)

\* The URLs of the capture entries: two on the media domain, one elsewhere.
HarUrls == {u \in Urls : u.base = "Part1" /\ (MatchesDomain(u) \/ u.dir = "a")}

\* datetime.fromisoformat(...) of startedDateTime: the instant of the request.
\* Aware datetimes compare by instant, so an entry carries its instant.
Instants == 0 .. MaxClock

HarEntries == [resourceType : {"media", "xhr"}, url : HarUrls, startedDateTime : Instants]

\* Position of url in the dict d (a sequence of key/value pairs in insertion
\* order), 0 when it is no key.
DictIndex(d, url) ==
    IF \E i \in 1 .. Len(d) : d[i].url = url
    THEN CHOOSE i \in 1 .. Len(d) : d[i].url = url
    ELSE 0

\* DictSet on a list of pairs: an old key is not looked up.
DictSetAppend(d, url, ts) == Append(d, [url |-> url, ts |-> ts])

\* Line 185: d[url] = ts; a new key goes last, an old key keeps its place.
DictSet(d, url, ts) ==
    IF DictIndex(d, url) = 0
    THEN Append(d, [url |-> url, ts |-> ts])
    ELSE [d EXCEPT ![DictIndex(d, url)].ts = ts]

\* SkipTimestamp with the comparison reversed: the earliest timestamp is kept.
SkipNewerTimestamp(d, url, query_timestamp) ==
    /\ DictIndex(d, url) # 0
    /\ query_timestamp > d[DictIndex(d, url)].ts

\* Line 181: the condition under which the entry is skipped.  A datetime is
\* always truthy, so the walrus test is the key's presence.
SkipTimestamp(d, url, query_timestamp) ==
    /\ DictIndex(d, url) # 0
    /\ query_timestamp < d[DictIndex(d, url)].ts

\* Lines 174-185: the body of the loop for one entry.
VisitEntry(d, libby_entry) ==
    IF libby_entry.resourceType # "media" THEN d
    ELSE IF ~MatchesDomain(libby_entry.url) THEN d
    ELSE IF SkipTimestamp(d, libby_entry.url, libby_entry.startedDateTime) THEN d
    ELSE DictSet(d, libby_entry.url, libby_entry.startedDateTime)

\* Lines 172-185: the loop over the first n entries.
RECURSIVE VisitEntries(_, _)
VisitEntries(es, n) ==
    IF n = 0 THEN <<>> ELSE VisitEntry(VisitEntries(es, n - 1), es[n])

\* sorted(..., key=lambda item: item[1]) is stable: an item goes after the
\* items whose key is not greater.
RECURSIVE SortedByTs(_)
SortedByTs(d) ==
    IF d = <<>> THEN <<>>
    ELSE LET rest == SortedByTs(SubSeq(d, 1, Len(d) - 1))
             x == d[Len(d)]
             k == Cardinality({i \in 1 .. Len(rest) : rest[i].ts <= x.ts})
         IN  SubSeq(rest, 1, k) \o <<x>> \o SubSeq(rest, k + 1, Len(rest))

\* Line 189: the names of the sorted items.
OrderedNames(d) == [i \in 1 .. Len(SortedByTs(d)) |-> SortedByTs(d)[i].url]

(* The run variables are idle during a call of the extractor. *)
RunIdle ==
    /\ args = [has_introduction |-> FALSE, has_prologue |-> FALSE, has_epilogue |-> FALSE,
               has_conclusion |-> FALSE, no_chapters |-> FALSE]
    /\ pc = "idle"
    /\ links = <<>>
    /\ disk = {}
    /\ downloaded_files = <<>>
    /\ file_i = 0
    /\ silence_timestamps = <<>>
    /\ ts_i = 0
    /\ is_last_file = FALSE
    /\ next_chapter_start_time = IntVal(0)
    /\ chapter = 0
    /\ track = 0
    /\ introduction_processed = FALSE
    /\ prologue_processed = FALSE
    /\ segments = <<>>
    /\ generated = <<>>
    /\ analysed = <<>>
    /\ identified = <<>>
    /\ exit_status = -1
    /\ transfer = "none"
    /\ returncode = -1

\* Line 288: the capture document is loaded.
InitHar ==
    /\ entries \in SeqUpTo(HarEntries, MaxEntries)
    /\ located_media_links = <<>>
    /\ ordered_media_links = <<>>
    /\ har_pc = "loaded"
    /\ RunIdle
    /\ DetectIdle
    /\ StartupIdle
    /\ ExtractIdle

\* Lines 170-192: one call of _identify_download_urls.
IdentifyDownloadUrls ==
    /\ har_pc = "loaded"
    /\ located_media_links' = VisitEntries(entries, Len(entries))
    /\ ordered_media_links' = OrderedNames(VisitEntries(entries, Len(entries)))
    /\ har_pc' = "returned"
    /\ UNCHANGED <<entries, run_vars, detect_vars, startup_vars, extract_vars>>

NextHar == IdentifyDownloadUrls

SpecHar == InitHar /\ [][NextHar]_vars

----------------------------------------------------------------------------
(* Properties of the extractor, checked under SpecHar. *)

\* An entry the extractor retains: tagged media and on the media domain.
Qualifies(e) == e.resourceType = "media" /\ MatchesDomain(e.url)

\* The timestamps of the qualifying records of url in the document.
StampsOf(url) ==
    {entries[i].startedDateTime :
        i \in {j \in 1 .. Len(entries) : Qualifies(entries[j]) /\ entries[j].url = url}}

Earliest(url) == CHOOSE t \in StampsOf(url) : \A u \in StampsOf(url) : t <= u

Latest(url) == CHOOSE t \in StampsOf(url) : \A u \in StampsOf(url) : t >= u

\* The timestamp the dict holds for url when the loop has ended.
Retained(url) == located_media_links[DictIndex(located_media_links, url)].ts

\* C1 as stated: the returned URLs are in ascending order of their EARLIEST
\* qualifying timestamp, and the timestamp retained for a URL is the minimum
\* of the timestamps of its qualifying records.
C1_EarliestRetained ==
    har_pc = "returned" =>
        /\ \A i \in 1 .. Len(ordered_media_links) :
              Retained(ordered_media_links[i]) = Earliest(ordered_media_links[i])
        /\ \A i, j \in 1 .. Len(ordered_media_links) :
              i < j => Earliest(ordered_media_links[i]) <= Earliest(ordered_media_links[j])

\* C1 as amended: the returned URLs are in ascending order of their LATEST
\* qualifying timestamp, and the timestamp retained for a URL is the maximum
\* of the timestamps of its qualifying records, whatever the order of the
\* records in the document.
C1_LatestRetained ==
    har_pc = "returned" =>
        /\ \A i \in 1 .. Len(ordered_media_links) :
              Retained(ordered_media_links[i]) = Latest(ordered_media_links[i])
        /\ \A i, j \in 1 .. Len(ordered_media_links) :
              i < j => Latest(ordered_media_links[i]) <= Latest(ordered_media_links[j])

\* C1 witness: a document in which one URL recurs, its earlier record coming
\* after its later one, and the order by latest timestamp is not the order
\* by earliest timestamp.
C1_Witness ==
    /\ har_pc = "returned"
    /\ Len(ordered_media_links) = 2
    /\ Earliest(ordered_media_links[2]) < Earliest(ordered_media_links[1])
    /\ \E i, j \in 1 .. Len(entries) :
          /\ i < j
          /\ Qualifies(entries[i]) /\ Qualifies(entries[j])
          /\ entries[i].url = entries[j].url
          /\ entries[j].startedDateTime < entries[i].startedDateTime

----------------------------------------------------------------------------
(* Properties of the segmentation, checked under Spec. *)

\* Some _identify_chapters call has returned and none is in progress.
FileReturned == pc \in {"file", "done"} /\ identified # <<>>

\* The requests of the run made for the file at position f.
RequestsOf(f) == {k \in 1 .. Len(generated) : generated[k].file = f}

\* C2: when _identify_chapters returns for a file with N silence intervals it
\* has made exactly N+1 requests; request i <= N starts at the end of interval
\* i-1 (the int 0 for i = 1) and ends at the start of interval i, and the last
\* request starts at the end of interval N (the int 0 for N = 0) and has the
\* int 0, no end, as its end.
C2_SegmentsOfFile ==
    LET n == Len(silence_timestamps)
        start(i) == IF i = 1 THEN IntVal(0) ELSE StrVal(silence_timestamps[i - 1][2])
    IN  /\ pc = "chapters" => Len(segments) = ts_i - 1
        /\ FileReturned =>
             /\ Len(segments) = n + 1
             /\ Cardinality(RequestsOf(Len(identified))) = n + 1
             /\ \A i \in 1 .. n :
                   /\ segments[i].start_time = start(i)
                   /\ segments[i].end_time = StrVal(silence_timestamps[i][1])
             /\ segments[n + 1].start_time = start(n + 1)
             /\ segments[n + 1].end_time = IntVal(0)

\* C2 witness: a file with two silence intervals has been segmented.
C2_Witness ==
    /\ FileReturned
    /\ Len(silence_timestamps) = 2
    /\ Len(segments) = 3

\* C3: the track counter equals the number of requests made so far in the
\* run, and the k-th request of the run carries track number k.
C3_TrackNumbers ==
    /\ track = Len(generated)
    /\ \A k \in 1 .. Len(generated) : generated[k].track = k

\* C3 witness: the third request of a run is made for the second file.
C3_Witness ==
    /\ Len(generated) >= 3
    /\ generated[3].file = 2
    /\ generated[1].file = 1

IsNumbered(r) == r.chapter[1] \in {"Chapter", "Part"}

\* C4: in every state the numbered labels emitted so far are numbered
\* 1, 2, ..., chapterCounter in emission order; as every step emits at most
\* one request, the counter moves only by +1, together with one numbered
\* label, and an unnumbered label leaves it alone.
C4_ChapterNumbers ==
    LET nums == SelectSeq(generated, IsNumbered)
    IN  /\ Len(nums) = chapter
        /\ \A j \in 1 .. Len(nums) : nums[j].chapter[2] = j

\* C4 witness: two numbered labels with an unnumbered one emitted after the
\* first, over two files.
C4_Witness ==
    /\ chapter = 2
    /\ Len(identified) = 2
    /\ \E j, k \in 1 .. Len(generated) :
          j < k /\ IsNumbered(generated[j]) /\ ~IsNumbered(generated[k])

CountLabel(label) == Cardinality({k \in 1 .. Len(generated) : generated[k].chapter = label})

\* C5: a one-shot flag that is set stays set; "Introduction" and "Prologue"
\* are each emitted at most once in a run, exactly when the flag is set, and
\* never when the feature is not configured.
C5_OneShotFlags ==
    /\ [][/\ introduction_processed => introduction_processed'
          /\ prologue_processed => prologue_processed']_vars
    /\ [](/\ CountLabel(Plain("Introduction")) = IF introduction_processed THEN 1 ELSE 0
          /\ CountLabel(Plain("Prologue")) = IF prologue_processed THEN 1 ELSE 0
          /\ introduction_processed => args.has_introduction
          /\ prologue_processed => args.has_prologue)

\* C5 witness: both labels were emitted and two more intervals were labelled
\* after them.
C5_Witness ==
    /\ introduction_processed
    /\ prologue_processed
    /\ Len(generated) >= 4
    /\ Len(identified) = 2

IsFrontMatter(r) == r.chapter \in {Plain("Introduction"), Plain("Prologue")}

\* C6: "Introduction" and "Prologue" are the very first labels of a run: no
\* other label is emitted before one of them, and they are emitted (the
\* one-shot flags are set) only while the first file is processed.
C6_FrontMatterFirst ==
    \A k \in 1 .. Len(generated) :
        IsFrontMatter(generated[k]) =>
            /\ generated[k].file = 1
            /\ \A j \in 1 .. k - 1 : IsFrontMatter(generated[j])

\* C7: the step taken when every interval of the file has been processed
\* makes exactly one request, to the end of the file, and ends the call; for
\* the last file its label is "Conclusion" when a conclusion is configured
\* and "Epilogue" otherwise and the chapter counter is unchanged, for any
\* other file the counter is incremented and the label is "Part n" when
\* chapter detection is disabled and "Chapter n" otherwise.
C7_TrailingRule ==
    [][(pc = "chapters" /\ ts_i > Len(silence_timestamps)) =>
          /\ Len(generated') = Len(generated) + 1
          /\ SubSeq(generated', 1, Len(generated)) = generated
          /\ pc' \in {"file", "exited"}
          /\ segments'[Len(segments')].end_time = IntVal(0)
          /\ generated'[Len(generated')].file = file_i
          /\ IF is_last_file
             THEN /\ chapter' = chapter
                  /\ generated'[Len(generated')].chapter =
                        IF args.has_conclusion THEN <<"Conclusion">> ELSE <<"Epilogue">>
             ELSE /\ chapter' = chapter + 1
                  /\ generated'[Len(generated')].chapter =
                        IF args.no_chapters THEN <<"Part", chapter + 1>>
                        ELSE <<"Chapter", chapter + 1>>]_vars

\* C7 witness: a run of two files has ended, the first file's last request
\* labelled "Chapter n" and the second file's "Conclusion".
C7_Witness ==
    /\ pc = "done"
    /\ Len(identified) = 2
    /\ generated[Len(generated)].chapter = <<"Conclusion">>
    /\ \E k \in 1 .. Len(generated) - 1 :
          /\ generated[k].file = 1
          /\ generated[k + 1].file = 2
          /\ generated[k].chapter[1] = "Chapter"

\* C8: the step taken for a silence interval makes exactly one request,
\* labelled by the first rule that applies: "Introduction" when configured
\* and not yet emitted; "Prologue" when configured and not yet emitted;
\* "Epilogue" when the interval is the last of the file's list, a conclusion
\* is configured and is_last_file holds; otherwise "Chapter n" with the
\* counter incremented.  "Epilogue" goes to no interval that is not the last
\* of its list by position.
C8_IntervalRule ==
    [][(pc = "chapters" /\ ts_i <= Len(silence_timestamps)) =>
          /\ Len(generated') = Len(generated) + 1
          /\ SubSeq(generated', 1, Len(generated)) = generated
          /\ LET label == generated'[Len(generated')].chapter
             IN  /\ IF args.has_introduction /\ ~introduction_processed
                    THEN /\ label = <<"Introduction">>
                         /\ introduction_processed'
                         /\ UNCHANGED <<prologue_processed, chapter>>
                    ELSE IF args.has_prologue /\ ~prologue_processed
                    THEN /\ label = <<"Prologue">>
                         /\ prologue_processed'
                         /\ UNCHANGED <<introduction_processed, chapter>>
                    ELSE IF /\ ts_i = Len(silence_timestamps)
                            /\ args.has_conclusion
                            /\ is_last_file
                    THEN /\ label = <<"Epilogue">>
                         /\ UNCHANGED <<introduction_processed, prologue_processed, chapter>>
                    ELSE /\ label = <<"Chapter", chapter + 1>>
                         /\ chapter' = chapter + 1
                         /\ UNCHANGED <<introduction_processed, prologue_processed>>
                 /\ label = <<"Epilogue">> => ts_i = Len(silence_timestamps)]_vars

\* C8 witness: in the last file of a run with an epilogue and a conclusion
\* configured and the introduction already emitted, an interval that is not
\* the last got "Chapter n", the last interval "Epilogue" and the rest of
\* the file "Conclusion".
C8_Witness ==
    /\ pc = "done"
    /\ args.has_epilogue /\ args.has_conclusion
    /\ introduction_processed
    /\ Len(silence_timestamps) = 2
    /\ Len(generated) >= 4
    /\ LET n == Len(generated)
       IN  /\ generated[n].chapter = <<"Conclusion">>
           /\ generated[n - 1].chapter = <<"Epilogue">>
           /\ generated[n - 2].chapter[1] = "Chapter"
           /\ generated[n - 2].file = generated[n].file

\* C9: is_last_file is true for a file exactly when an epilogue is configured
\* and the file is the final element, by position, of the downloaded files;
\* so it is true for at most one file of a run.
C9_LastFileByPosition ==
    \A f \in 1 .. Len(identified) :
        identified[f] = (args.has_epilogue /\ f = Len(downloaded_files))

\* The number of files among the first k for which is_last_file was false.
NotLastUpTo(k) == Cardinality({j \in 1 .. k : ~identified[j]})

\* C10: with chapter detection disabled the analysis tool is never invoked,
\* every file is segmented with the empty interval list and yields exactly
\* one request, from the start to the end of the file; the i-th file for
\* which is_last_file is false is labelled "Part i", and no "Chapter n",
\* "Introduction" or "Prologue" label is emitted.
C10_NoChapters ==
    args.no_chapters =>
        /\ analysed = <<>>
        /\ silence_timestamps = <<>>
        /\ segments \in {<<>>, <<[start_time |-> IntVal(0), end_time |-> IntVal(0)]>>}
        /\ pc \in {"file", "done"} => Len(generated) = Len(identified)
        /\ \A k \in 1 .. Len(generated) :
              /\ generated[k].file = k
              /\ generated[k].chapter[1] \notin {"Chapter", "Introduction", "Prologue"}
              /\ ~identified[k] => generated[k].chapter = <<"Part", NotLastUpTo(k)>>

\* C10 witness: a run with chapter detection disabled has ended after two
\* files, labelled "Part 1" and "Part 2".
C10_Witness ==
    /\ args.no_chapters
    /\ pc = "done"
    /\ Len(generated) = 2
    /\ generated[1].chapter = <<"Part", 1>>
    /\ generated[2].chapter = <<"Part", 2>>

----------------------------------------------------------------------------
(* Properties of the error handling, checked under Spec. *)

\* C11: a tool invocation that returns non-zero ends the run in the same
\* step with exit status 1, and from then on nothing changes: no further
\* invocation, request, counter or flag; a run that ends with every
\* invocation successful has exit status 0, after every downloaded file was
\* segmented.
C11_ToolFailureFatal ==
    /\ [][exit_status = -1]_vars
    /\ [](/\ returncode = 1 <=> pc = "exited"
          /\ pc = "exited" <=> exit_status = 1
          /\ pc = "done" <=> exit_status = 0
          /\ pc = "done" => Len(identified) = Len(downloaded_files)
          /\ exit_status \in {-1, 0, 1})

\* C11 witness: the extraction tool failed on the first request of the
\* second file, after the first file was segmented.
C11_Witness ==
    /\ pc = "exited"
    /\ exit_status = 1
    /\ Len(identified) = 2
    /\ generated[Len(generated)].file = 2
    /\ Cardinality(RequestsOf(2)) = 1
    /\ Len(silence_timestamps) = 2

\* C12: every iteration of the download loop moves on to the next locator
\* whatever its outcome; no transfer is made for a destination file that is
\* already there; the file is appended to the list exactly when it was
\* already there or its transfer succeeded, so the list is the subsequence,
\* in locator order, of those locators; and only files of that list are
\* segmented, after the loop has visited every locator.
C12_DownloadIsolation ==
    /\ [][(pc = "download" /\ links # <<>>) =>
             /\ links' = Tail(links)
             /\ pc' = "download"
             /\ exit_status' = -1
             /\ transfer' = "exists" <=>
                   (ReMatch(Head(links)) /\ DownloadFile(Head(links)) \in disk)
             /\ transfer' \in {"exists", "unparsed", "expired"} => disk' = disk
             /\ transfer' = "retrieved" => DownloadFile(Head(links)) \in disk'
             /\ downloaded_files' =
                   IF transfer' \in {"exists", "retrieved"}
                   THEN Append(downloaded_files, DownloadFile(Head(links)))
                   ELSE downloaded_files]_vars
    /\ [][pc # "download" => downloaded_files' = downloaded_files]_vars
    /\ [](/\ pc = "download" => generated = <<>> /\ identified = <<>> /\ analysed = <<>>
          /\ pc # "download" => links = <<>>
          /\ \A k \in 1 .. Len(generated) :
                /\ generated[k].file \in 1 .. Len(downloaded_files)
                /\ generated[k].filename = downloaded_files[generated[k].file])

\* C12 witness: a transfer has failed and a locator with a parsable file name
\* is still to be visited.
C12_Witness ==
    /\ pc = "download"
    /\ transfer \in {"expired", "error"}
    /\ links # <<>>
    /\ ReMatch(Head(links))

----------------------------------------------------------------------------
(* More properties of the extractor, checked under SpecHar. *)

\* The URLs with at least one record tagged media on the media domain.
QualifyingUrls == {entries[i].url : i \in {j \in 1 .. Len(entries) : Qualifies(entries[j])}}

\* C13: the returned list holds every URL that has a qualifying record
\* exactly once and holds no other URL; for a document without a qualifying
\* record the call returns the empty list.
C13_DistinctQualifying ==
    har_pc = "returned" =>
        /\ {ordered_media_links[i] : i \in 1 .. Len(ordered_media_links)} = QualifyingUrls
        /\ Len(ordered_media_links) = Cardinality(QualifyingUrls)
        /\ QualifyingUrls = {} => ordered_media_links = <<>>

\* C13 witness: a document with a URL in two qualifying records, a media
\* record off the media domain and a record on the media domain that is not
\* tagged media; one URL is returned.
C13_Witness ==
    /\ har_pc = "returned"
    /\ Len(entries) = 3
    /\ Len(ordered_media_links) = 1
    /\ \E i \in 1 .. 3 : entries[i].resourceType # "media" /\ MatchesDomain(entries[i].url)
                          /\ entries[i].url \notin QualifyingUrls
    /\ \E i, j \in 1 .. 3 : i # j /\ Qualifies(entries[i]) /\ Qualifies(entries[j])
                             /\ entries[i].url = entries[j].url

----------------------------------------------------------------------------
(* _detect_silences' filter (lines 153-161) as a function of the parsed
   tool output and of --maximum_silence. *)

Seconds == 0 .. MaxSeconds

\* Line 153-157: one regex match, the three captured numbers.  The tool
\* prints silence_duration as silence_end - silence_start.
Match(start, end) == [start |-> start, end |-> end, duration |-> end - start]

\* The match lists of a file: intervals in file-time order.
MatchLists ==
    {[i \in 1 .. Len(l) |-> Match(l[i][1], l[i][2])] :
        l \in {m \in SeqUpTo(Seconds \X Seconds, MaxSilences) : InFileOrder(m)}}

\* Line 159 keeping a silence as long as the maximum.
KeepsInclusive(ts, maximum) == ts.duration <= maximum

\* Line 159: the test of the list comprehension.
Keeps(ts, maximum) == ts.duration < maximum

\* Line 159: the list comprehension, (ts[0], ts[1]) of each kept match.
RECURSIVE FilterSilences(_, _)
FilterSilences(tss, maximum) ==
    IF tss = <<>> THEN <<>>
    ELSE LET rest == FilterSilences(Tail(tss), maximum)
         IN IF Keeps(Head(tss), maximum)
            THEN <<(<<Head(tss).start, Head(tss).end>>)>> \o rest
            ELSE rest

\* Lines 146-152: the tool has printed its output for one file.
InitSilence ==
    /\ timestamps \in MatchLists
    /\ maximum_silence \in Seconds
    /\ returned_timestamps = <<>>
    /\ detect_pc = "matched"
    /\ RunIdle
    /\ HarIdle
    /\ StartupIdle
    /\ ExtractIdle

\* Lines 159-161: filter and return.
ReturnTimestamps ==
    /\ detect_pc = "matched"
    /\ returned_timestamps' = FilterSilences(timestamps, maximum_silence)
    /\ detect_pc' = "returned"
    /\ UNCHANGED <<timestamps, maximum_silence, run_vars, har_vars, startup_vars, extract_vars>>

NextSilence == ReturnTimestamps

SpecSilence == InitSilence /\ [][NextSilence]_vars

\* Positions of the matches shorter than the maximum.
ShortMatches == {i \in 1 .. Len(timestamps) : timestamps[i].duration < maximum_silence}

\* The k-th position of ShortMatches in list order.
KthShort(k) == CHOOSE i \in ShortMatches : Cardinality({j \in ShortMatches : j <= i}) = k

----------------------------------------------------------------------------
(* Start-up: AudioBooker() at line 303, i.e. __init__ (lines 17-51) with
   _process_args (lines 53-123) and _build_metadata (lines 125-129). *)

\* Lines 56-59: the options added with required=True.
RequiredOptions == {"name", "title", "author", "narrator"}

\* Lines 56-120: the dest of every add_argument call.
Dests ==
    RequiredOptions \cup
    {"har_file", "has_introduction", "has_prologue", "has_epilogue", "has_conclusion",
     "log_level", "silence_duration_threshold", "silence_db_threshold", "maximum_silence",
     "no_chapters"}

\* The options a command line may carry in a start-up check.
CommandLineOptions == RequiredOptions \cup {"composer", "has_epilogue", "no_chapters"}

\* Line 123: parse_args accepts the command line when every required option
\* is given and every given option was added to the parser.
Accepted(given) == RequiredOptions \subseteq given /\ given \subseteq Dests

\* Line 123: the result has one attribute per dest, here whether the option
\* was given a value (otherwise it holds its default).
Namespace(given) == [d \in Dests |-> d \in given]

\* Line 126: the fields of the metadata string before the composer test.
BaseMetadata == {"album", "author", "album_artist"}

\* Line 303: the interpreter starts with some command line.
InitStartup ==
    /\ argv \in SUBSET CommandLineOptions
    /\ namespace = <<>>
    /\ metadata = {}
    /\ startup_pc = "start"
    /\ RunIdle
    /\ HarIdle
    /\ DetectIdle
    /\ ExtractIdle

\* Lines 18 and 53-123: _process_args; a rejected command line ends the
\* process with argparse's usage error (exit status 2).
ProcessArgs ==
    /\ startup_pc = "start"
    /\ IF Accepted(argv)
       THEN /\ namespace' = Namespace(argv)
            /\ startup_pc' = "parsed"
       ELSE /\ namespace' = namespace
            /\ startup_pc' = "usage_error"
    /\ UNCHANGED <<argv, metadata, run_vars, har_vars, detect_vars, extract_vars>>

\* Lines 42 and 125-129, then lines 43-51: _build_metadata reads
\* self._args.composer; an attribute the namespace lacks raises
\* AttributeError, which nothing catches (traceback, exit status 1).
BuildMetadata ==
    /\ startup_pc = "parsed"
    /\ IF "composer" \notin DOMAIN namespace
       THEN /\ metadata' = metadata
            /\ startup_pc' = "attribute_error"
       ELSE /\ metadata' = IF namespace["composer"] THEN BaseMetadata \cup {"composer"}
                                                    ELSE BaseMetadata
            /\ startup_pc' = "ready"
    /\ UNCHANGED <<argv, namespace, run_vars, har_vars, detect_vars, extract_vars>>

NextStartup == ProcessArgs \/ BuildMetadata

SpecStartup == InitStartup /\ [][NextStartup]_vars

\* C15: a command line with the four required options and no composer does
\* not end start-up in an error; once start-up has run it is ready for
\* processing with metadata holding the album and author fields and no
\* composer field.
C15_ComposerOptional ==
    (RequiredOptions \subseteq argv /\ "composer" \notin argv) =>
        /\ startup_pc \notin {"usage_error", "attribute_error"}
        /\ startup_pc \notin {"start", "parsed"} =>
              /\ startup_pc = "ready"
              /\ {"album", "author"} \subseteq metadata
              /\ "composer" \notin metadata

----------------------------------------------------------------------------
(* Order of the downloads and of the processing, checked under Spec. *)

\* C16 as stated: file i is analysed and segmented before the download of
\* file i+1 is attempted, so whenever a later file has been downloaded every
\* earlier file is fully processed, and a fatal tool failure while processing
\* file i finds no later file downloaded.
C16_OneAtATime ==
    /\ \A i \in 1 .. Len(downloaded_files) - 1 : file_i > i
    /\ pc = "exited" => Len(downloaded_files) = file_i

\* C16 amended: the download of every locator is attempted, in locator
\* order, before any file is analysed or segmented; the downloaded files are
\* then processed one at a time in download order, the analysis of a file
\* before its extractions and all of them before those of the next file; a
\* fatal tool failure while processing file i comes after every download and
\* before any later file is analysed or segmented.
C16_DownloadsThenOneAtATime ==
    /\ [][downloaded_files' # downloaded_files \/ links' # links =>
             pc = "download" /\ analysed = <<>> /\ identified = <<>> /\ generated = <<>>]_vars
    /\ [](/\ (analysed # <<>> \/ identified # <<>> \/ generated # <<>>) =>
                 pc # "download" /\ links = <<>>
          /\ \A k \in 1 .. Len(analysed) : analysed[k] <= file_i
          /\ \A k \in 1 .. Len(analysed) - 1 : analysed[k] < analysed[k + 1]
          /\ \A k \in 1 .. Len(generated) : generated[k].file <= file_i
          /\ \A k \in 1 .. Len(generated) - 1 : generated[k].file <= generated[k + 1].file
          /\ ~args.no_chapters =>
                \A k \in 1 .. Len(generated) :
                    \E j \in 1 .. Len(analysed) : analysed[j] = generated[k].file
          /\ pc \in {"file", "chapters", "exited", "done"} =>
                \A i \in 1 .. file_i - 1 : i <= Len(downloaded_files) => RequestsOf(i) # {})

\* C16 witness: the extraction tool fails on the first of two downloaded
\* files, after its analysis.
C16_Witness ==
    /\ pc = "exited"
    /\ file_i = 1
    /\ Len(downloaded_files) = 2
    /\ analysed = <<1>>
    /\ generated # <<>>

----------------------------------------------------------------------------
(* _generate_chapter_file (lines 222-235) as the command it builds, observed
   while _identify_chapters segments one file.  The times printed by the
   analysis tool and the threshold option are decimal strings, here whole
   numbers of tenths of a second; float() turns them into binary numbers. *)

Tenths == 0 .. MaxTenths

\* float(s) at lines 228, 230 and argparse's type=float (line 97): the binary
\* number nearest to the decimal s.  The binary format is scaled down to
\* multiples of 1/8; the result is counted in sixteenths so that halving is
\* exact.  No decimal tenth lies halfway between two eighths.
Float(tenths) == 2 * ((8 * tenths + 5) \div 10)

\* Padding of a whole threshold.
SilencePaddingWhole(threshold) == Float(threshold)

\* Line 50: self._silence_padding = silence_duration_threshold / 2.
SilencePadding(threshold) == Float(threshold) \div 2

\* Truth value of the time as a number.
TruthyNumeric(time) == time.val # 0

\* Lines 227 and 229: truth value of a time argument; the int 0 is false, a
\* string captured by the regex is non-empty and true.
Truthy(time) == IF time.type = "int" THEN time.val # 0 ELSE TRUE

\* Lines 223-235: the command; ss and to are the -ss and -to options, <<>>
\* when the option is not given, and warned tells that line 234 logged.
Command(label, start_time, end_time, threshold, files) ==
    [output |-> label,
     ss |-> IF Truthy(start_time)
            THEN <<Float(start_time.val) - SilencePadding(threshold)>> ELSE <<>>,
     to |-> IF Truthy(end_time)
            THEN <<Float(end_time.val) + SilencePadding(threshold)>> ELSE <<>>,
     warned |-> label \in files]

\* Lines 233-235 inside a step that made a request: the command is handed to
\* _execute_command whether or not the chapter file exists; a successful run
\* of the tool leaves the chapter file in the directory.
ObserveCommand ==
    /\ commands' = Append(commands,
                          Command(generated'[Len(generated')].chapter,
                                  segments'[Len(segments')].start_time,
                                  segments'[Len(segments')].end_time,
                                  silence_duration_threshold, chapter_files))
    /\ chapter_files' = IF returncode' = 0
                        THEN chapter_files \cup {generated'[Len(generated')].chapter}
                        ELSE chapter_files
    /\ UNCHANGED silence_duration_threshold

\* The lists the analysis tool prints for a threshold: intervals in file-time
\* order, none shorter than the threshold (silencedetect's d= option, line 148).
ExtractSilenceLists(threshold) ==
    {l \in SeqUpTo(Tenths \X Tenths, MaxSilences) :
        InFileOrder(l) /\ \A i \in 1 .. Len(l) : l[i][2] - l[i][1] >= threshold}

\* Line 297: _identify_chapters is entered for the only downloaded file.
InitExtract ==
    /\ args \in {a \in Args : ~a.has_introduction /\ ~a.has_epilogue /\ ~a.has_conclusion
                              /\ ~a.no_chapters}
    /\ pc = "chapters"
    /\ links = <<>>
    /\ disk = {"Part1"}
    /\ downloaded_files = <<"Part1">>
    /\ file_i = 1
    /\ silence_duration_threshold \in 1 .. MaxThreshold
    /\ silence_timestamps \in ExtractSilenceLists(silence_duration_threshold)
    /\ ts_i = 1
    /\ is_last_file = FALSE
    /\ next_chapter_start_time = IntVal(0)
    /\ chapter = 0
    /\ track = 0
    /\ introduction_processed = FALSE
    /\ prologue_processed = FALSE
    /\ segments = <<>>
    /\ generated = <<>>
    /\ analysed = <<1>>
    /\ identified = <<FALSE>>
    /\ exit_status = -1
    /\ transfer = "none"
    /\ returncode = 0
    /\ commands = <<>>
    /\ chapter_files \in SUBSET {Plain("Prologue"), Numbered("Chapter", 1)}
    /\ HarIdle
    /\ DetectIdle
    /\ StartupIdle

ExtractIntervalStep == IntervalIteration /\ ObserveCommand

ExtractTrailingStep == TrailingRequest /\ ObserveCommand

NextExtract == ExtractIntervalStep \/ ExtractTrailingStep

SpecExtract == InitExtract /\ [][NextExtract]_vars

\* C17: the padding is half the threshold; every request is answered by one
\* command for the requested label, issued also when the chapter file
\* exists; a start given as a time yields the start offset start - padding
\* and an end given as a time yields the end offset end + padding; the start
\* of the first segment and the end of the trailing segment, given as the
\* int 0, yield no offset.
C17_PaddedOffsets ==
    /\ Len(commands) = Len(generated)
    /\ Len(commands) = Len(segments)
    /\ \A k \in 1 .. Len(commands) :
          \E padding \in 0 .. Float(MaxThreshold) :
              /\ 2 * padding = Float(silence_duration_threshold)
              /\ commands[k].output = generated[k].chapter
              /\ commands[k].ss = IF segments[k].start_time = IntVal(0) THEN <<>>
                                  ELSE <<Float(segments[k].start_time.val) - padding>>
              /\ commands[k].to = IF segments[k].end_time = IntVal(0) THEN <<>>
                                  ELSE <<Float(segments[k].end_time.val) + padding>>

\* C17 witness: a file with one silence that starts at time 0; the first
\* command has no start offset, has the end offset 0 + padding and is issued
\* although its chapter file exists; the trailing command has a start offset
\* and no end offset.
C17_Witness ==
    /\ pc = "file"
    /\ Len(commands) = 2
    /\ silence_timestamps[1][1] = 0
    /\ commands[1].ss = <<>>
    /\ commands[1].to = <<SilencePadding(silence_duration_threshold)>>
    /\ commands[1].warned
    /\ commands[2].ss # <<>>
    /\ commands[2].to = <<>>

\* The numbers the program computes with for silence i of the file.
SilenceStart(i) == Float(silence_timestamps[i][1])

SilenceEnd(i) == Float(silence_timestamps[i][2])

\* Silence i starts at 0 or later, lasts at least the threshold and comes
\* after the silence before it.
WellFormedSilence(i) ==
    /\ 0 <= SilenceStart(i)
    /\ SilenceEnd(i) - SilenceStart(i) >= Float(silence_duration_threshold)
    /\ i > 1 => SilenceEnd(i - 1) <= SilenceStart(i)

----------------------------------------------------------------------------
(* Labels over a whole run, checked under Spec. *)

\* C18: no two requests of a run carry the same label, also when distinct
\* locators map to the same file name; in particular "Epilogue" and
\* "Conclusion" are each emitted at most once.
C18_DistinctLabels ==
    /\ \A j, k \in 1 .. Len(generated) : j # k => generated[j].chapter # generated[k].chapter
    /\ CountLabel(Plain("Epilogue")) <= 1
    /\ CountLabel(Plain("Conclusion")) <= 1

\* The labels of a run are distinct when the downloaded file names are.
DistinctLabelsOfDistinctFiles ==
    Distinct(downloaded_files) =>
        \A j, k \in 1 .. Len(generated) : j # k => generated[j].chapter # generated[k].chapter

\* C19: in a run with a conclusion and no epilogue configured, is_last_file
\* is false for every file, neither "Epilogue" nor "Conclusion" is emitted,
\* every request after the front matter carries a numbered label, and the
\* trailing request of every file, the last one included, carries the
\* numbered label of the incremented counter.
C19_ConclusionWithoutEpilogue ==
    (args.has_conclusion /\ ~args.has_epilogue) =>
        /\ ~is_last_file
        /\ \A i \in 1 .. Len(identified) : ~identified[i]
        /\ CountLabel(Plain("Epilogue")) = 0
        /\ CountLabel(Plain("Conclusion")) = 0
        /\ \A k \in 1 .. Len(generated) : IsNumbered(generated[k]) \/ IsFrontMatter(generated[k])
        /\ pc = "done" =>
              /\ Len(identified) = Len(downloaded_files)
              /\ \A f \in 1 .. Len(downloaded_files) :
                    \E k \in RequestsOf(f) :
                        /\ \A j \in RequestsOf(f) : j <= k
                        /\ IsNumbered(generated[k])
                        /\ generated[k].chapter[1] = IF args.no_chapters THEN "Part" ELSE "Chapter"
                        /\ generated[k].chapter[2] =
                              Cardinality({j \in 1 .. k : IsNumbered(generated[j])})
              /\ chapter = Cardinality({j \in 1 .. Len(generated) : IsNumbered(generated[j])})

\* C19 witness: a finished run over two files with a conclusion and no
\* epilogue configured, the last file with a silence.
C19_Witness ==
    /\ pc = "done"
    /\ args.has_conclusion
    /\ ~args.has_epilogue
    /\ Len(downloaded_files) = 2
    /\ Cardinality(RequestsOf(2)) = 2
    /\ generated[Len(generated)].chapter = Numbered("Chapter", chapter)

=============================================================================
